---- MODULE Spec2Model ----
(***************************************************************************)
(* Model of tools/parsers/lib/data.py: the value comparators (is_empty,    *)
(* are_equal, are_close_enough), the accessor DeviceCarbonFootprint.get    *)
(* and the field-by-field DeviceCarbonFootprint.merge.                     *)
(*                                                                         *)
(* Values.  A Python scalar is a record [t, s, n]:                         *)
(*   t = "str": a string, s its characters (a sequence of one-character    *)
(*              strings);                                                  *)
(*   t = "num": an int or a float, n its value in tenths (1049 stands for  *)
(*              104.9).  Both comparators are homogeneous in (a, b), so    *)
(*              the unit does not change their outcome;                    *)
(*   t = "nan": float('nan').                                              *)
(* A record's data is a function from the stored keys to values; a key     *)
(* that is not stored is absent from its DOMAIN.                           *)
(***************************************************************************)
EXTENDS Integers, Sequences, FiniteSets, TLC

VARIABLES
    device1,    \* merge argument: data of the first record
    device2,    \* merge argument: data of the second record
    conflict,   \* merge argument: "keep2nd" or "interactive"
    verbose,    \* merge argument: verbosity
    pc,         \* position in merge
    idx,        \* position of the for loop in the schema (1-based)
    result,     \* local: the merged data being built
    report,     \* local: <<set of keys kept from device1, from device2>>
    conflicts,  \* local: keys appended at line 191
    k,          \* local: the operator's answer
    out,        \* standard output: one entry per print call
    nread,      \* number of lines read from standard input
    acc,        \* accessor call: [data, key, ret, called]
    cmp         \* comparator call: [a, b, eq, close, called]

vars == <<device1, device2, conflict, verbose, pc, idx, result, report,
          conflicts, k, out, nread, acc, cmp>>

mergeVars == <<device1, device2, conflict, verbose, pc, idx, result, report,
               conflicts, k, out, nread>>

----------------------------------------------------------------------------
(* Values *)

Str(s) == [t |-> "str", s |-> s, n |-> 0]
Num(n) == [t |-> "num", s |-> <<>>, n |-> n]
NaN == [t |-> "nan", s |-> <<>>, n |-> 0]

\* what a raised ValueError leaves in place of a return value
ValueError == [t |-> "ValueError", s |-> <<>>, n |-> 0]

isstr(x) == x.t = "str"

\* the keys of DeviceCarbonFootprintData.__annotations__, in declaration order
Schema ==
    << "manufacturer", "name", "category", "subcategory", "gwp_total",
       "gwp_use_ratio", "yearly_tec", "lifetime", "use_location",
       "report_date", "sources", "sources_hash", "gwp_error_ratio",
       "gwp_manufacturing_ratio", "weight", "assembly_location",
       "screen_size", "server_type", "hard_drive", "memory", "number_cpu",
       "height", "added_date", "add_method", "gwp_transport_ratio",
       "gwp_eol_ratio", "gwp_electronics_ratio", "gwp_battery_ratio",
       "gwp_hdd_ratio", "gwp_ssd_ratio", "gwp_othercomponents_ratio",
       "comment" >>

SchemaKeys == {Schema[i] : i \in 1..Len(Schema)}

----------------------------------------------------------------------------
(* String helpers: str.strip, str.replace, re.sub, str.lower, re.search *)

\* the characters \s matches and str.strip removes, among those used here
Whitespace == {" ", "\t"}

\* U+201D, the right double quotation mark replaced at lines 81-82
RightQuote == "''"

RECURSIVE lstrip(_)
lstrip(s) ==
    IF s # <<>> /\ Head(s) \in Whitespace THEN lstrip(Tail(s)) ELSE s

RECURSIVE rstrip(_)
rstrip(s) ==
    IF s # <<>> /\ s[Len(s)] \in Whitespace
    THEN rstrip(SubSeq(s, 1, Len(s) - 1))
    ELSE s

strip(s) == rstrip(lstrip(s))

\* a.replace('”', 'in')
RECURSIVE replace_inch(_)
replace_inch(s) ==
    IF s = <<>> THEN <<>>
    ELSE (IF Head(s) = RightQuote THEN <<"i", "n">> ELSE <<Head(s)>>)
         \o replace_inch(Tail(s))

\* re.sub(r'\s\s+', ' ', s): every run of two or more whitespace characters
\* becomes one space; a single whitespace character is left as it is
RECURSIVE collapse(_)
collapse(s) ==
    IF s = <<>> THEN <<>>
    ELSE IF Len(s) >= 2 /\ s[1] \in Whitespace /\ s[2] \in Whitespace
         THEN <<" ">> \o collapse(lstrip(s))
         ELSE <<Head(s)>> \o collapse(Tail(s))

UpperChars == << "A", "B", "C", "D", "E", "F", "G", "H", "I", "J", "K", "L",
                 "M", "N", "O", "P", "Q", "R", "S", "T", "U", "V", "W", "X",
                 "Y", "Z" >>
LowerChars == << "a", "b", "c", "d", "e", "f", "g", "h", "i", "j", "k", "l",
                 "m", "n", "o", "p", "q", "r", "s", "t", "u", "v", "w", "x",
                 "y", "z" >>

lower_char(c) ==
    IF \E i \in 1..Len(UpperChars) : UpperChars[i] = c
    THEN LowerChars[CHOOSE i \in 1..Len(UpperChars) : UpperChars[i] = c]
    ELSE c

lower(s) == [i \in 1..Len(s) |-> lower_char(s[i])]

\* lines 81-82: re.sub(r'\s\s+', ' ', a.replace(..)).strip().lower()
normalize(s) == lower(strip(collapse(replace_inch(s))))

DigitChars == << "0", "1", "2", "3", "4", "5", "6", "7", "8", "9" >>

RECURSIVE digits(_)
digits(n) ==
    IF n < 10 THEN <<DigitChars[n + 1]>>
    ELSE digits(n \div 10) \o <<DigitChars[(n % 10) + 1]>>

\* str(v) at lines 180-181; a number prints as its digits (no letter p, d, f)
str(v) ==
    IF isstr(v) THEN v.s
    ELSE IF v.t = "nan" THEN <<"n", "a", "n">>
    ELSE IF v.n < 0 THEN <<"-">> \o digits(-v.n)
    ELSE digits(v.n)

PdfAt(s, e) ==
    /\ e + 3 <= Len(s)
    /\ SubSeq(s, e, e + 3) = <<".", "p", "d", "f">>

\* the positions p from which [^\/]*\.pdf matches: a run of non-slash
\* characters from p followed by ".pdf"
PdfStarts(s) ==
    {p \in 1..Len(s) :
        \E e \in p..Len(s) : PdfAt(s, e) /\ \A j \in p..(e - 1) : s[j] # "/"}

Min(S) == CHOOSE x \in S : \A y \in S : x <= y
Max(S) == CHOOSE x \in S : \A y \in S : y <= x

\* re.search(r'([^\/]*\.pdf)', s): the leftmost match, its run taken greedily;
\* found = FALSE stands for None
pdf_search(s) ==
    IF PdfStarts(s) = {} THEN [found |-> FALSE, m |-> <<>>]
    ELSE LET p == Min(PdfStarts(s))
             e == Max({x \in p..Len(s) :
                         PdfAt(s, x) /\ \A j \in p..(x - 1) : s[j] # "/"})
         IN [found |-> TRUE, m |-> SubSeq(s, p, e + 3)]

\* lines 179-183: both filenames, or '1' and '2' when either search fails
\* (None[0] raises and the bare except catches it)
source_files(v1, v2) ==
    LET m1 == pdf_search(str(v1))
        m2 == pdf_search(str(v2))
    IN IF m1.found /\ m2.found THEN <<m1.m, m2.m>> ELSE << <<"1">>, <<"2">> >>

----------------------------------------------------------------------------
(* Value comparators, lines 69-87 *)

abs(x) == IF x < 0 THEN -x ELSE x

\* Python's max(a, b)
max(a, b) == IF b > a THEN b ELSE a

\* 2e-3 and 0.05 as EqualTol / TolScale and CloseTol / TolScale
TolScale == 1000
EqualTol == 2
CloseTol == 50

\* abs(a-b) <= tol * max(a,b); any comparison with nan is False
within(a, b, tol) ==
    /\ a.t = "num"
    /\ b.t = "num"
    /\ TolScale * abs(a.n - b.n) <= tol * max(a.n, b.n)

\* is_empty with the test x==0 left out
is_empty_nan_only(x) ==
    \/ isstr(x) /\ x.s = <<>>
    \/ ~isstr(x) /\ x.t = "nan"

is_empty(x) ==
    \/ isstr(x) /\ x.s = <<>>
    \/ ~isstr(x) /\ (x.t = "nan" \/ x.n = 0)

are_equal(a, b) ==
    IF isstr(a) /\ isstr(b) THEN strip(a.s) = strip(b.s)
    ELSE IF ~isstr(a) /\ ~isstr(b) THEN within(a, b, EqualTol)
    ELSE FALSE

are_close_enough(a, b) ==
    IF isstr(a) /\ isstr(b) THEN normalize(a.s) = normalize(b.s)
    ELSE IF ~isstr(a) /\ ~isstr(b) THEN within(a, b, CloseTol)
    ELSE FALSE

----------------------------------------------------------------------------
(* DeviceCarbonFootprint.get, lines 115-120 *)

get(data, key) ==
    IF key \in DOMAIN data THEN data[key]
    ELSE IF key \notin SchemaKeys THEN ValueError
    ELSE Str(<<>>)

----------------------------------------------------------------------------
(* DeviceCarbonFootprint.merge, lines 145-212 *)

\* ignore_keys with 'comment' left out
ignore_keys_short == {"added_date", "add_method"}

ignore_keys == {"added_date", "add_method", "comment"}

\* the branch of the if/elif chain of lines 157-191 taken for a key
Classify(key, v1, v2) ==
    IF ~is_empty(v1) /\ is_empty(v2) THEN "first"
    ELSE IF is_empty(v1) /\ ~is_empty(v2) THEN "second"
    ELSE IF (is_empty(v1) /\ is_empty(v2)) \/ are_equal(v1, v2) THEN "same"
    ELSE IF are_close_enough(v1, v2) THEN "close"
    ELSE IF key \in ignore_keys THEN "ignore"
    ELSE IF key = "sources" THEN "sources"
    ELSE "conflict"

\* line 167 with the threshold of line 172
WarnCloseAboveOne(vb) == vb > 1

\* line 167: if verbose
WarnClose(vb) == vb # 0

\* line 172: if verbose>1
WarnIgnore(vb) == vb > 1

\* line 184: if verbose>1 or (verbose and file1!=file2)
WarnSources(vb, v1, v2) ==
    LET f == source_files(v1, v2)
    IN vb > 1 \/ (vb # 0 /\ f[1] # f[2])

\* the print calls of one loop iteration, one entry per call
Prints(key, v1, v2, vb) ==
    LET c == Classify(key, v1, v2)
    IN IF c = "close" /\ WarnClose(vb)
         THEN << [kind |-> "close", key |-> key] >>
       ELSE IF c = "ignore" /\ WarnIgnore(vb)
         THEN << [kind |-> "ignore", key |-> key] >>
       ELSE IF c = "sources" /\ WarnSources(vb, v1, v2)
         THEN << [kind |-> "sources", key |-> key],
                 [kind |-> "ignored", key |-> key],
                 [kind |-> "retained", key |-> key] >>
       ELSE <<>>

\* d[key] = v on a dict: overwrite or insert
Store(d, key, v) == [x \in DOMAIN d \cup {key} |-> IF x = key THEN v ELSE d[x]]

\* report[side].add(key)
Add(rep, side, key) == [rep EXCEPT ![side] = @ \cup {key}]

\* lines 154-191: one iteration of the for loop
MergeField ==
    /\ pc = "loop"
    /\ idx <= Len(Schema)
    /\ LET key == Schema[idx]
           v1 == get(device1, key)
           v2 == get(device2, key)
           c == Classify(key, v1, v2)
       IN /\ out' = out \o Prints(key, v1, v2, verbose)
          /\ IF c = "first"
               THEN /\ result' = Store(result, key, v1)
                    /\ report' = Add(report, 1, key)
                    /\ conflicts' = conflicts
             ELSE IF c = "conflict"
               THEN /\ conflicts' = Append(conflicts, key)
                    /\ UNCHANGED <<result, report>>
             ELSE /\ result' = Store(result, key, v2)
                  /\ report' = Add(report, 2, key)
                  /\ conflicts' = conflicts
    /\ idx' = idx + 1
    /\ UNCHANGED <<device1, device2, conflict, verbose, pc, k, nread, acc, cmp>>

\* the for loop is exhausted
LoopEnd ==
    /\ pc = "loop"
    /\ idx > Len(Schema)
    /\ pc' = "check"
    /\ UNCHANGED <<device1, device2, conflict, verbose, idx, result, report,
                   conflicts, k, out, nread, acc, cmp>>

\* line 195: if conflict=='interactive' or verbose
ShowsTable(cf, vb) == cf = "interactive" \/ vb # 0

\* the test of line 195 repeated at line 201
PromptsWhenVerbose(cf, vb) == cf = "interactive" \/ vb # 0

\* line 201: if conflict=='interactive'
Prompts(cf, vb) == cf = "interactive"

\* lines 193-195
CheckConflicts ==
    /\ pc = "check"
    /\ IF Len(conflicts) > 0
         THEN /\ k' = "n"
              /\ pc' = IF ShowsTable(conflict, verbose) THEN "table"
                       ELSE "resolve"
         ELSE /\ pc' = "done"
              /\ k' = k
    /\ UNCHANGED <<device1, device2, conflict, verbose, idx, result, report,
                   conflicts, out, nread, acc, cmp>>

\* lines 196-201: the header and one row per conflicting key
PrintTable ==
    /\ pc = "table"
    /\ out' = out \o << [kind |-> "header", key |-> ""] >>
                  \o [i \in 1..Len(conflicts) |->
                        [kind |-> "row", key |-> conflicts[i]]]
    /\ pc' = IF Prompts(conflict, verbose) THEN "prompt" ELSE "resolve"
    /\ UNCHANGED <<device1, device2, conflict, verbose, idx, result, report,
                   conflicts, k, nread, acc, cmp>>

\* the lines the operator may type
Inputs == {"o", "n", "", "O", "oo"}

\* lines 202-203: print the question, then k = input()
Prompt ==
    /\ pc = "prompt"
    /\ out' = Append(out, [kind |-> "question", key |-> ""])
    /\ \E line \in Inputs : k' = line
    /\ nread' = nread + 1
    /\ pc' = "resolve"
    /\ UNCHANGED <<device1, device2, conflict, verbose, idx, result, report,
                   conflicts, acc, cmp>>

\* line 204 with the test inverted
KeepsFirstInverted(answer) == answer # "o"

\* line 204 comparing without regard to case
KeepsFirstAnyCase(answer) == answer \in {"o", "O"}

\* line 204: if k=='o'
KeepsFirst(answer) == answer = "o"

RECURSIVE StoreAll(_, _, _)
StoreAll(d, keys, src) ==
    IF keys = <<>> THEN d
    ELSE StoreAll(Store(d, Head(keys), get(src, Head(keys))), Tail(keys), src)

\* lines 204-211 with line 207 left out
ResolvedReportSecondOnly(rep, keys, answer) ==
    IF answer = "o" THEN rep
    ELSE [rep EXCEPT ![2] = @ \cup {keys[i] : i \in 1..Len(keys)}]

\* lines 207 and 211: report[0].add(key) or report[1].add(key), every key
ResolvedReport(rep, keys, answer) ==
    [rep EXCEPT ![IF KeepsFirst(answer) THEN 1 ELSE 2] =
        @ \cup {keys[i] : i \in 1..Len(keys)}]

\* lines 204-211
Resolve ==
    /\ pc = "resolve"
    /\ result' = StoreAll(result, conflicts,
                          IF KeepsFirst(k) THEN device1 ELSE device2)
    /\ report' = ResolvedReport(report, conflicts, k)
    /\ pc' = "done"
    /\ UNCHANGED <<device1, device2, conflict, verbose, idx, conflicts, k,
                   out, nread, acc, cmp>>

----------------------------------------------------------------------------
(* Accessor and comparator calls on their own *)

\* record.get(key) called from outside merge
Get ==
    /\ \E key \in {"name", "weight", "comment", "foo", "bar"} :
         acc' = [data |-> acc.data, key |-> key,
                 ret |-> get(acc.data, key), called |-> TRUE]
    /\ UNCHANGED mergeVars
    /\ UNCHANGED cmp

\* are_equal(a, b) and are_close_enough(a, b) called on two numbers
Compare ==
    /\ ~cmp.called
    /\ cmp' = [cmp EXCEPT !.eq = are_equal(cmp.a, cmp.b),
                          !.close = are_close_enough(cmp.a, cmp.b),
                          !.called = TRUE]
    /\ UNCHANGED mergeVars
    /\ UNCHANGED acc

----------------------------------------------------------------------------
(* Inputs *)

MaxVerbose == 2

EmptyData == [x \in {} |-> NaN]

\* marks a key the record does not store, while records are enumerated
Absent == [t |-> "absent", s |-> <<>>, n |-> 0]

Laptop == Str(<<"L", "a", "p", "t", "o", "p">>)
LaptopPadded == Str(<<" ", "L", "a", "p", "t", "o", "p", "\t">>)
LaptopLower == Str(<<"l", "a", "p", "t", "o", "p">>)
Desktop == Str(<<"D", "e", "s", "k", "t", "o", "p">>)
Blank == Str(<<" ">>)
ScreenQuote == Str(<<"1", "5", RightQuote, " ", "\t", "H", "D">>)
ScreenInch == Str(<<"1", "5", "i", "n", " ", "h", "d">>)
UrlAX == Str(<<"a", "/", "x", ".", "p", "d", "f">>)
UrlBX == Str(<<"b", "/", "x", ".", "p", "d", "f">>)
UrlBY == Str(<<"b", "/", "y", ".", "p", "d", "f">>)
UrlWeb == Str(<<"w", "e", "b">>)
Old == Str(<<"o", "l", "d">>)
OldUpper == Str(<<"O", "l", "d">>)
New == Str(<<"n", "e", "w">>)

\* the keys whose values vary
FocusFields == {"category", "gwp_total", "sources", "added_date", "comment"}

\* the values tried for a key
Domain(f) ==
    IF f = "category"
      THEN {Absent, Str(<<>>), Blank, Laptop, LaptopPadded, LaptopLower,
            Desktop, ScreenQuote, ScreenInch, Num(5)}
    ELSE IF f = "gwp_total"
      THEN {Absent, Num(0), NaN, Num(1000), Num(1001), Num(1049), Num(1060),
            Num(-1000), Num(-1049), Laptop}
    ELSE IF f = "sources"
      THEN {Absent, Str(<<>>), UrlAX, UrlBX, UrlBY, UrlWeb, Num(7)}
    ELSE {Absent, Str(<<>>), Old, OldUpper, New, Num(3)}

\* the pairs tried for a key while another key runs over its whole domain
Background(f) ==
    IF f = "category" THEN {<<Absent, Absent>>, <<Laptop, Desktop>>}
    ELSE IF f = "gwp_total" THEN {<<Absent, Absent>>, <<Num(1000), Num(1060)>>}
    ELSE {<<Absent, Absent>>}

PairsFor(f, hot) == IF f = hot THEN Domain(f) \X Domain(f) ELSE Background(f)

\* the data of the record that stores a[f] for every focus key f not Absent
MakeData(a) == [f \in {g \in FocusFields : a[g] # Absent} |-> a[f]]

IdleAcc == [data |-> EmptyData, key |-> "", ret |-> Str(<<>>), called |-> FALSE]
IdleCmp == [a |-> Num(0), b |-> Num(0), eq |-> FALSE, close |-> FALSE,
            called |-> FALSE]

\* merge(device1, device2, conflict, verbose) has been called
Init ==
    /\ \E hot \in FocusFields :
       \E pc1 \in PairsFor("category", hot), pg \in PairsFor("gwp_total", hot),
          ps \in PairsFor("sources", hot), pd \in PairsFor("added_date", hot),
          pm \in PairsFor("comment", hot) :
         LET a(i) == [f \in FocusFields |->
                        IF f = "category" THEN pc1[i]
                        ELSE IF f = "gwp_total" THEN pg[i]
                        ELSE IF f = "sources" THEN ps[i]
                        ELSE IF f = "added_date" THEN pd[i]
                        ELSE pm[i]]
         IN /\ device1 = MakeData(a(1))
            /\ device2 = MakeData(a(2))
    /\ conflict \in {"keep2nd", "interactive"}
    /\ verbose \in 0..MaxVerbose
    /\ pc = "loop"
    /\ idx = 1
    /\ result = EmptyData
    /\ report = <<{}, {}>>
    /\ conflicts = <<>>
    /\ k = ""
    /\ out = <<>>
    /\ nread = 0
    /\ acc = IdleAcc
    /\ cmp = IdleCmp

Next ==
    \/ MergeField
    \/ LoopEnd
    \/ CheckConflicts
    \/ PrintTable
    \/ Prompt
    \/ Resolve

Spec == Init /\ [][Next]_vars

\* no merge is running
IdleMerge ==
    /\ device1 = EmptyData
    /\ device2 = EmptyData
    /\ conflict = "keep2nd"
    /\ verbose = 0
    /\ pc = "idle"
    /\ idx = 1
    /\ result = EmptyData
    /\ report = <<{}, {}>>
    /\ conflicts = <<>>
    /\ k = ""
    /\ out = <<>>
    /\ nread = 0

\* the data a record may be constructed with: any mapping, schema keys or not
AccKeys == {"name", "weight", "foo"}
AccValues == {Absent, Str(<<>>), Laptop, Num(5)}

InitGet ==
    /\ IdleMerge
    /\ \E a \in [AccKeys -> AccValues] :
         acc = [data |-> [f \in {g \in AccKeys : a[g] # Absent} |-> a[f]],
                key |-> "", ret |-> Str(<<>>), called |-> FALSE]
    /\ cmp = IdleCmp

SpecGet == InitGet /\ [][Get]_vars

CmpNumbers == {-1060, -1049, -1001, -1000, -1, 0, 1, 998, 1000, 1001, 1002,
               1003, 1049, 1053, 1060}

InitCmp ==
    /\ IdleMerge
    /\ acc = IdleAcc
    /\ \E a, b \in CmpNumbers :
         cmp = [a |-> Num(a), b |-> Num(b), eq |-> FALSE, close |-> FALSE,
                called |-> FALSE]

SpecCmp == InitCmp /\ [][Compare]_vars

----------------------------------------------------------------------------
(* Properties *)

Done == pc = "done"

V1(f) == get(device1, f)
V2(f) == get(device2, f)

InSeq(q, x) == \E i \in 1..Len(q) : q[i] = x

\* empty as the specification words it: the empty string, zero, not-a-number
EmptyValue(v) ==
    \/ v.t = "str" /\ v.s = <<>>
    \/ v.t = "num" /\ v.n = 0
    \/ v.t = "nan"

Magnitude(x) == IF x < 0 THEN -x ELSE x
Larger(x, y) == IF x >= y THEN x ELSE y

\* |a - b| is at most tol/TolScale of the larger magnitude of a and b
WithinOfMagnitude(a, b, tol) ==
    TolScale * Magnitude(a - b) <= tol * Larger(Magnitude(a), Magnitude(b))

\* strictly equal and tolerant-equal as the specification words them
StrictlyEqual(a, b) ==
    \/ a.t = "str" /\ b.t = "str" /\ strip(a.s) = strip(b.s)
    \/ a.t = "num" /\ b.t = "num" /\ WithinOfMagnitude(a.n, b.n, EqualTol)

TolerantEqual(a, b) ==
    \/ a.t = "str" /\ b.t = "str" /\ normalize(a.s) = normalize(b.s)
    \/ a.t = "num" /\ b.t = "num" /\ WithinOfMagnitude(a.n, b.n, CloseTol)

IgnorableFields == {"added_date", "add_method", "comment"}
SpecialFields == IgnorableFields \cup {"sources"}

\* the number of print calls about key f
PrintsAbout(f) == Cardinality({i \in 1..Len(out) : out[i].key = f})

\* C1: when merge returns, the two provenance sets are disjoint, their union
\* is the set of schema fields, and the merged record holds a value for
\* every schema field.
SchemaCompleteness ==
    Done =>
        /\ report[1] \cap report[2] = {}
        /\ report[1] \cup report[2] = SchemaKeys
        /\ DOMAIN result = SchemaKeys

\* a merge that returned with fields kept from both records, the operator
\* having chosen the first record for the conflicts
SchemaCompletenessWitness ==
    /\ Done
    /\ conflict = "interactive"
    /\ k = "o"
    /\ Len(conflicts) >= 2
    /\ report[2] # {}

\* C2: merge(R, R) under keep-second returns a record identical to R, every
\* field in the second set, the first set empty, and no conflict.
IdempotenceOnEqualInputs ==
    (Done /\ conflict = "keep2nd" /\ device1 = device2) =>
        /\ \A f \in SchemaKeys : f \in DOMAIN result /\ result[f] = V2(f)
        /\ report = <<{}, SchemaKeys>>
        /\ conflicts = <<>>

\* C3: a field empty in one record and not in the other takes the other's
\* value, is attributed to that record, and is not a conflict.
EmptinessPrecedence ==
    Done =>
        \A f \in SchemaKeys :
            /\ (EmptyValue(V1(f)) /\ ~EmptyValue(V2(f))) =>
                   /\ result[f] = V2(f)
                   /\ f \in report[2]
                   /\ ~InSeq(conflicts, f)
            /\ (~EmptyValue(V1(f)) /\ EmptyValue(V2(f))) =>
                   /\ result[f] = V1(f)
                   /\ f \in report[1]
                   /\ ~InSeq(conflicts, f)

\* a merge that returned with a field zero in the first record and present
\* in the second, the operator having chosen the first record for a conflict
EmptinessPrecedenceWitness ==
    /\ Done
    /\ k = "o"
    /\ conflicts # <<>>
    /\ V1("gwp_total") = Num(0)
    /\ V2("gwp_total") = Num(1049)

\* C4: under keep-second, a field that is not ignorable and not 'sources',
\* with two non-empty values neither strictly equal nor tolerant-equal, is
\* in the conflict list, takes the second record's value and is attributed
\* to the second set.
KeepSecondConflict ==
    (Done /\ conflict = "keep2nd") =>
        \A f \in SchemaKeys \ SpecialFields :
            (/\ ~EmptyValue(V1(f))
             /\ ~EmptyValue(V2(f))
             /\ ~StrictlyEqual(V1(f), V2(f))
             /\ ~TolerantEqual(V1(f), V2(f))) =>
                /\ InSeq(conflicts, f)
                /\ result[f] = V2(f)
                /\ f \in report[2]
                /\ f \notin report[1]

\* category "Laptop" against "Desktop" merged under keep-second
KeepSecondConflictWitness ==
    /\ Done
    /\ conflict = "keep2nd"
    /\ V1("category") = Laptop
    /\ V2("category") = Desktop
    /\ InSeq(conflicts, "category")

IsConflictKey(f) == Classify(f, V1(f), V2(f)) = "conflict"

\* C5: under the interactive policy with a conflict, the answer 'o' gives
\* every conflicting field the first record's value and set, any other
\* answer the second record's; the conflict list is the list of the fields
\* classified as conflicts, in schema order; the other fields do not depend
\* on the answer.
InteractiveAllOrNothing ==
    (Done /\ conflict = "interactive" /\ conflicts # <<>>) =>
        /\ conflicts = SelectSeq(Schema, IsConflictKey)
        /\ \A f \in SchemaKeys :
             IF InSeq(conflicts, f)
             THEN IF k = "o"
                  THEN result[f] = V1(f) /\ f \in report[1] \ report[2]
                  ELSE result[f] = V2(f) /\ f \in report[2] \ report[1]
             ELSE IF ~EmptyValue(V1(f)) /\ EmptyValue(V2(f))
                  THEN result[f] = V1(f) /\ f \in report[1] \ report[2]
                  ELSE result[f] = V2(f) /\ f \in report[2] \ report[1]

\* two conflicts resolved by an answer that is not 'o' but resembles it
InteractiveAllOrNothingWitness ==
    /\ Done
    /\ conflict = "interactive"
    /\ Len(conflicts) = 2
    /\ k = "O"
    /\ result["category"] = V2("category")

\* C6: a line is read from standard input only under the interactive policy
\* with at least one conflict, once, after every field has been classified;
\* under keep-second none is read and merge never waits for one.
PromptOnlyWhenInteractiveConflict ==
    /\ nread <= 1
    /\ (nread = 1 \/ pc = "prompt") =>
           /\ conflict = "interactive"
           /\ conflicts # <<>>
           /\ idx > Len(Schema)
    /\ (Done /\ conflict = "interactive" /\ conflicts # <<>>) => nread = 1
    /\ conflict = "keep2nd" => (nread = 0 /\ pc # "prompt")

\* keep-second at the highest verbosity returned with conflicts, unprompted
PromptOnlyWhenInteractiveConflictWitness ==
    /\ Done
    /\ conflict = "keep2nd"
    /\ verbose = MaxVerbose
    /\ Len(conflicts) >= 2
    /\ nread = 0

\* C7: are_equal(a, b) on two numbers is true exactly when |a - b| is at
\* most 0.2% of the larger magnitude of the two.
StrictNumericEquality ==
    cmp.called => (cmp.eq <=> WithinOfMagnitude(cmp.a.n, cmp.b.n, EqualTol))

\* C8: get fails for a name outside the schema, returns the empty string
\* for a schema field that is not stored and the stored value otherwise.
AccessorContract ==
    acc.called =>
        IF acc.key \notin SchemaKeys THEN acc.ret = ValueError
        ELSE IF acc.key \notin DOMAIN acc.data THEN acc.ret = Str(<<>>)
        ELSE acc.ret = acc.data[acc.key]

\* C9: a field with two non-empty values that are tolerant-equal and not
\* strictly equal takes the second record's value and set, is not a
\* conflict, and is warned about once when verbosity >= 1, never at 0.
TolerantEqualResolution ==
    Done =>
        \A f \in SchemaKeys :
            (/\ ~EmptyValue(V1(f))
             /\ ~EmptyValue(V2(f))
             /\ TolerantEqual(V1(f), V2(f))
             /\ ~StrictlyEqual(V1(f), V2(f))) =>
                /\ result[f] = V2(f)
                /\ f \in report[2] \ report[1]
                /\ ~InSeq(conflicts, f)
                /\ PrintsAbout(f) = IF verbose >= 1 THEN 1 ELSE 0

\* C10: an ignorable field or 'sources' with two non-empty values takes the
\* second record's value and set and is never in the conflict list, whatever
\* the operator answers.
SpecialFieldsNeverEscalate ==
    /\ \A f \in SpecialFields : ~InSeq(conflicts, f)
    /\ Done =>
         \A f \in SpecialFields :
             (~EmptyValue(V1(f)) /\ ~EmptyValue(V2(f))) =>
                 /\ result[f] = V2(f)
                 /\ f \in report[2] \ report[1]

\* differing comments, a conflict elsewhere, and the operator chose the
\* first record
SpecialFieldsNeverEscalateWitness ==
    /\ Done
    /\ k = "o"
    /\ conflicts # <<>>
    /\ V1("comment") = Old
    /\ V2("comment") = New

====
